---------------------------- MODULE Spec2Model ----------------------------
(***************************************************************************)
(* Eco.Miner server (Hono app over a key-value store): the per-user        *)
(* accrual ledger, ad boosts, referral bonuses and withdrawals.            *)
(*                                                                         *)
(* Units.  Timestamps are whole seconds (the code's Date.now()             *)
(* milliseconds / 1000, so the code's timeDiff is a plain difference).     *)
(* Rates are in units of 1e-7 $/s and currency amounts in units of 1e-7 $, *)
(* so that minedAmount = currentMiningRate * timeDiff is exact.  The       *)
(* code's IEEE doubles are modelled by exact integers.                     *)
(*                                                                         *)
(* Every handler is cut at its awaits on the store: one action per         *)
(* kv.get / kv.set, with the synchronous code between two awaits (among it *)
(* getServerTime()) executed in the same step.                             *)
(***************************************************************************)
EXTENDS Integers, Sequences, FiniteSets, TLC

\* ------------------------------------------------------------ bounds
NUsers == 2
NProcs == 2
MaxTicks == 2
MaxSettles == 2
MaxRequests == 3
InitTime == 2000000000

\* ------------------------------------------------- program constants
DAY == 86400
BaseMiningRate == 1
AdBoostIncrement == 1
RefereeBonusRate == 30
ReferrerBonusRate == 20
ReferralBonus == 500000
ReferralAdThreshold == 3
DefaultBoostCap == 50
MinimumDeposit == 2
AdsPerDepositUnit == 50
MinimumWithdrawal == 1000000000
EligibilityDays == 7

\* A user id is a number whose last digit stands for the characters of the
\* id after the eighth; IdTail is the number of values that digit can take.
IdTail == 10
Users == {IdTail * i : i \in 1..NUsers}
Procs == 1..NProcs
NoUser == 0
NoRecord == [userId |-> NoUser]

\* generateReferralCode: "ECO" and the first eight characters of the id, in
\* upper case.  Codes are given in upper case throughout.
generateReferralCode(userId) == userId \div IdTail

\* The codes a caller may send: 0 is a missing code, the largest is unknown.
Codes == 0..(NUsers + 1)

\* The e-mail addresses that contain the text "admin".
AdminEmails == {"admin@eco.test"}

\* The e-mail address a user's signup sends: the last user's contains "admin".
SignupEmail(userId) ==
  IF \A v \in Users : v <= userId THEN "admin@eco.test" ELSE "miner@eco.test"

\* The record written by a signup that lets the user withdraw at once.
NewUserEligibleAtOnce(userId, now) ==
  [ userId             |-> userId,
    email              |-> SignupEmail(userId),
    balance            |-> 0,
    totalMined         |-> 0,
    baseMiningRate     |-> BaseMiningRate,
    currentMiningRate  |-> BaseMiningRate,
    adsWatchedToday    |-> 0,
    lastAdWatchTime    |-> 0,
    lastResetTime      |-> now,
    miningStartTime    |-> now,
    referralCode       |-> generateReferralCode(userId),
    referredBy         |-> NoUser,
    referralCount      |-> 0,
    depositBoostCap    |-> DefaultBoostCap,
    createdAt          |-> now,
    canWithdraw        |-> FALSE,
    withdrawEligibleAt |-> now ]

\* The record written by signup.
NewUser(userId, now) ==
  [ userId             |-> userId,
    email              |-> SignupEmail(userId),
    balance            |-> 0,
    totalMined         |-> 0,
    baseMiningRate     |-> BaseMiningRate,
    currentMiningRate  |-> BaseMiningRate,
    adsWatchedToday    |-> 0,
    lastAdWatchTime    |-> 0,
    lastResetTime      |-> now,
    miningStartTime    |-> now,
    referralCode       |-> generateReferralCode(userId),
    referredBy         |-> NoUser,
    referralCount      |-> 0,
    depositBoostCap    |-> DefaultBoostCap,
    createdAt          |-> now,
    canWithdraw        |-> FALSE,
    withdrawEligibleAt |-> now + EligibilityDays * DAY ]

\* ------------------------------------------------------- accrual engine
\* Accrue with the restart of the accrual interval forgotten.
AccrueKeepStart(rec, now) ==
  LET timeDiff    == now - rec.miningStartTime
      minedAmount == rec.currentMiningRate * timeDiff
  IN  [rec EXCEPT !.balance = @ + minedAmount,
                  !.totalMined = @ + minedAmount]

\* Lines 170-177 / 215-220: credit the earnings since miningStartTime.
Accrue(rec, now) ==
  LET timeDiff    == now - rec.miningStartTime
      minedAmount == rec.currentMiningRate * timeDiff
  IN  [rec EXCEPT !.balance = @ + minedAmount,
                  !.totalMined = @ + minedAmount,
                  !.miningStartTime = now]

\* The rollover of lines 180-185 firing as soon as any time has passed.
DailyResetEarly(rec, now) ==
  IF now - rec.lastResetTime > 0
    THEN [rec EXCEPT !.adsWatchedToday = 0,
                     !.currentMiningRate = rec.baseMiningRate,
                     !.lastResetTime = now]
    ELSE rec

\* The rollover of lines 180-185 firing only after more than 24 h.
DailyResetStrict(rec, now) ==
  IF now - rec.lastResetTime > DAY
    THEN [rec EXCEPT !.currentMiningRate = rec.baseMiningRate,
                     !.adsWatchedToday = 0,
                     !.lastResetTime = now]
    ELSE rec

\* Lines 179-185 / 222-228: the daily reset, evaluated on the accrued record.
DailyReset(rec, now) ==
  IF now - rec.lastResetTime >= DAY
    THEN [rec EXCEPT !.currentMiningRate = rec.baseMiningRate,
                     !.adsWatchedToday = 0,
                     !.lastResetTime = now]
    ELSE rec

\* Settle with the daily reset applied before the earnings are credited.
SettleResetFirst(rec, now) == Accrue(DailyReset(rec, now), now)

\* The settle step of mining-status and watch-ad.
Settle(rec, now) == DailyReset(Accrue(rec, now), now)


\* ---------------------------------------------------------------- state
VARIABLES
  clock,         \* the server's wall clock, Date.now()
  ticks,         \* how often the clock has advanced
  kvUser,        \* store keys user:<id>
  kvReferral,    \* store keys referral:<CODE>
  kvWithdrawal,  \* store keys withdrawal:<id>:<now>
  kvBonus,       \* store keys referral_bonus:<referrer>:<referee> holding true
  req,           \* the request each server task is handling
  started,       \* requests received so far
  bonusGranted,  \* history: per referrer, how often line 337 stored a credit
  debited,       \* history: withdrawal keys whose debit has reached the store
  shist,         \* settle runs: the record before and after every settle
  snows          \* settle runs: the timestamp of every settle

vars == <<clock, ticks, kvUser, kvReferral, kvWithdrawal, kvBonus, req,
          started, bonusGranted, debited, shist, snows>>

storeVars == <<kvUser, kvReferral, kvWithdrawal, kvBonus>>
procVars == <<clock, ticks, kvUser, kvReferral, kvWithdrawal, kvBonus, req,
              started, bonusGranted, debited>>
settleVars == <<shist, snows>>

IdleReq ==
  [ op |-> "none", pc |-> "idle", user |-> NoUser, now |-> 0,
    userData |-> NoRecord, referrerId |-> NoUser, referrerData |-> NoRecord,
    amount |-> 0, code |-> NoUser, result |-> "none", daysLeft |-> 0,
    withdrawalId |-> <<NoUser, 0>>, withdrawalData |-> NoRecord,
    allWithdrawals |-> << >> ]

EmptyStore ==
  /\ kvUser = [u \in Users |-> NoRecord]
  /\ kvReferral = << >>
  /\ kvWithdrawal = << >>
  /\ kvBonus = {}

NoProcs ==
  /\ clock = 0
  /\ ticks = 0
  /\ req = [p \in Procs |-> IdleReq]
  /\ started = 0
  /\ bonusGranted = [u \in Users |-> 0]
  /\ debited = {}

NoSettleRun ==
  /\ shist = << >>
  /\ snows = << >>

\* ------------------------------------------------- handler computations
\* The synchronous code of each handler between its read of the caller's
\* record and its first write: the result, and the record it will store.

\* mining-status, lines 168-185.
MiningStatusData(rec, now) ==
  [result |-> "ok", userData |-> Settle(rec, now)]

\* watch-ad adding twice the increment of line 236.
WatchAdDoubleBoost(rec, now) ==
  LET settled == Settle(rec, now)
  IN  IF settled.adsWatchedToday >= settled.depositBoostCap
        THEN [result |-> "DailyLimitReached", userData |-> settled]
        ELSE [result |-> "ok",
              userData |-> [settled EXCEPT
                              !.currentMiningRate = @ + 2 * AdBoostIncrement,
                              !.adsWatchedToday = @ + 1,
                              !.lastAdWatchTime = now]]

\* watch-ad refusing only above the cap (> for >= at line 231).
WatchAdOffByOne(rec, now) ==
  LET settled == Settle(rec, now)
  IN  IF settled.adsWatchedToday > settled.depositBoostCap
        THEN [result |-> "DailyLimitReached", userData |-> settled]
        ELSE [result |-> "ok",
              userData |-> [settled EXCEPT
                              !.currentMiningRate = @ + AdBoostIncrement,
                              !.adsWatchedToday = @ + 1,
                              !.lastAdWatchTime = now]]

\* watch-ad, lines 213-238.
WatchAdData(rec, now) ==
  LET settled == Settle(rec, now)
  IN  IF settled.adsWatchedToday >= settled.depositBoostCap
        THEN [result |-> "DailyLimitReached", userData |-> settled]
        ELSE [result |-> "ok",
              userData |-> [settled EXCEPT
                              !.currentMiningRate = @ + AdBoostIncrement,
                              !.adsWatchedToday = @ + 1,
                              !.lastAdWatchTime = now]]

\* deposit-boost granting 25 ads per dollar instead of 50 per whole $2.
DepositBoostPerDollar(rec, amount) ==
  IF amount = 0 \/ amount < MinimumDeposit
    THEN [result |-> "BelowMinimum", userData |-> rec]
    ELSE IF rec = NoRecord
      THEN [result |-> "NotFound", userData |-> rec]
      ELSE [result |-> "ok",
            userData |-> [rec EXCEPT !.depositBoostCap =
                            @ + (amount * AdsPerDepositUnit) \div 2]]

\* deposit-boost, lines 357-374 (amount is in whole dollars).
DepositBoostData(rec, amount) ==
  IF amount = 0 \/ amount < MinimumDeposit
    THEN [result |-> "BelowMinimum", userData |-> rec]
    ELSE IF rec = NoRecord
      THEN [result |-> "NotFound", userData |-> rec]
      ELSE [result |-> "ok",
            userData |-> [rec EXCEPT !.depositBoostCap =
                            @ + (amount \div 2) * AdsPerDepositUnit]]

\* Math.ceil(x / y) of line 407, for x > 0.
Ceil(x, y) == (x + y - 1) \div y

\* request-withdrawal reporting whole days elapsed-style (floor for ceil).
WithdrawalDaysFloor(rec, now, amount) ==
  IF amount = 0
    THEN [result |-> "Validation", userData |-> rec, daysLeft |-> 0]
    ELSE IF rec = NoRecord
      THEN [result |-> "NotFound", userData |-> rec, daysLeft |-> 0]
      ELSE IF now < rec.withdrawEligibleAt
        THEN [result |-> "NotYetEligible", userData |-> rec,
              daysLeft |-> (rec.withdrawEligibleAt - now) \div DAY]
        ELSE IF amount < MinimumWithdrawal
          THEN [result |-> "BelowMinimum", userData |-> rec, daysLeft |-> 0]
          ELSE IF rec.balance < amount
            THEN [result |-> "InsufficientBalance", userData |-> rec,
                  daysLeft |-> 0]
            ELSE [result |-> "ok",
                  userData |-> [rec EXCEPT !.balance = @ - amount],
                  daysLeft |-> 0]

\* request-withdrawal checking the balance before the minimum.
WithdrawalBalanceFirst(rec, now, amount) ==
  IF amount = 0
    THEN [result |-> "Validation", userData |-> rec, daysLeft |-> 0]
    ELSE IF rec = NoRecord
      THEN [result |-> "NotFound", userData |-> rec, daysLeft |-> 0]
      ELSE IF now < rec.withdrawEligibleAt
        THEN [result |-> "NotYetEligible", userData |-> rec,
              daysLeft |-> Ceil(rec.withdrawEligibleAt - now, DAY)]
        ELSE IF rec.balance < amount
          THEN [result |-> "InsufficientBalance", userData |-> rec,
                daysLeft |-> 0]
          ELSE IF amount < MinimumWithdrawal
            THEN [result |-> "BelowMinimum", userData |-> rec, daysLeft |-> 0]
            ELSE [result |-> "ok",
                  userData |-> [rec EXCEPT !.balance = @ - amount],
                  daysLeft |-> 0]

\* request-withdrawal, lines 393-435: no settle, three checks, the debit;
\* daysLeft is the number in the message of line 408.
WithdrawalData(rec, now, amount) ==
  IF amount = 0
    THEN [result |-> "Validation", userData |-> rec, daysLeft |-> 0]
    ELSE IF rec = NoRecord
      THEN [result |-> "NotFound", userData |-> rec, daysLeft |-> 0]
      ELSE IF now < rec.withdrawEligibleAt
        THEN [result |-> "NotYetEligible", userData |-> rec,
              daysLeft |-> Ceil(rec.withdrawEligibleAt - now, DAY)]
        ELSE IF amount < MinimumWithdrawal
          THEN [result |-> "BelowMinimum", userData |-> rec, daysLeft |-> 0]
          ELSE IF rec.balance < amount
            THEN [result |-> "InsufficientBalance", userData |-> rec,
                  daysLeft |-> 0]
            ELSE [result |-> "ok",
                  userData |-> [rec EXCEPT !.balance = @ - amount],
                  daysLeft |-> 0]

\* The withdrawal record of lines 422-432, stored under <<userId, now>>.
WithdrawalRecord(userId, now, amount) ==
  [ userId |-> userId, amount |-> amount, method |-> "Ecocash",
    status |-> "pending", requestedAt |-> now, processedAt |-> 0 ]

\* kv.set on the withdrawal keys: an upsert.
SetWithdrawal(store, key, value) == (key :> value) @@ store

\* ------------------------------------------------------ request handling
InFlight(p) == req[p].pc \notin {"idle", "done"}

CanBegin(p) ==
  /\ ~InFlight(p)
  /\ started < MaxRequests

Begun(p, op, u, pc) ==
  [IdleReq EXCEPT !.op = op, !.pc = pc, !.user = u, !.now = clock]

Finish(r, result) == [r EXCEPT !.pc = "done", !.result = result]

\* The clock advances between any two steps, or not at all.
TickSteps == {1, DAY}

Tick ==
  /\ ticks < MaxTicks
  /\ \E d \in TickSteps : clock' = clock + d
  /\ ticks' = ticks + 1
  /\ UNCHANGED <<storeVars, req, started, bonusGranted, debited, settleVars>>

\* GET /mining-status up to its kv.set (lines 156-185).
MiningStatusGet(p, u) ==
  /\ CanBegin(p)
  /\ started' = started + 1
  /\ LET rec == kvUser[u]
         r   == Begun(p, "mining-status", u, "ms_set")
     IN  req' = [req EXCEPT ![p] =
                   IF rec = NoRecord THEN Finish(r, "NotFound")
                   ELSE [r EXCEPT !.userData = MiningStatusData(rec, clock).userData]]
  /\ UNCHANGED <<clock, ticks, storeVars, bonusGranted, debited, settleVars>>

\* kv.set of line 187, and the response.
MiningStatusSet(p) ==
  /\ req[p].pc = "ms_set"
  /\ kvUser' = [kvUser EXCEPT ![req[p].user] = req[p].userData]
  /\ req' = [req EXCEPT ![p] = Finish(@, "ok")]
  /\ UNCHANGED <<clock, ticks, kvReferral, kvWithdrawal, kvBonus, started,
                 bonusGranted, debited, settleVars>>

\* watch-ad storing the settled record also when it answers the daily limit.
WatchAdGetStoresSettled(p, u) ==
  /\ CanBegin(p)
  /\ started' = started + 1
  /\ LET rec == kvUser[u]
         r   == Begun(p, "watch-ad", u, "wa_set")
         d   == WatchAdData(rec, clock)
     IN  /\ req' = [req EXCEPT ![p] =
                      IF rec = NoRecord THEN Finish(r, "NotFound")
                      ELSE IF d.result = "ok"
                        THEN [r EXCEPT !.userData = d.userData]
                        ELSE Finish([r EXCEPT !.userData = d.userData],
                                    d.result)]
         /\ kvUser' = IF rec # NoRecord /\ d.result # "ok"
                        THEN [kvUser EXCEPT ![u] = d.userData]
                        ELSE kvUser
  /\ UNCHANGED <<clock, ticks, kvReferral, kvWithdrawal, kvBonus, bonusGranted,
                 debited, settleVars>>

\* POST /watch-ad up to its kv.set (lines 201-238).
WatchAdGet(p, u) ==
  /\ CanBegin(p)
  /\ started' = started + 1
  /\ LET rec == kvUser[u]
         r   == Begun(p, "watch-ad", u, "wa_set")
     IN  req' = [req EXCEPT ![p] =
                   IF rec = NoRecord THEN Finish(r, "NotFound")
                   ELSE LET d == WatchAdData(rec, clock)
                        IN  IF d.result = "ok"
                              THEN [r EXCEPT !.userData = d.userData]
                              ELSE Finish([r EXCEPT !.userData = d.userData],
                                          d.result)]
  /\ UNCHANGED <<clock, ticks, storeVars, bonusGranted, debited, settleVars>>

\* kv.set of line 240, and the response.
WatchAdSet(p) ==
  /\ req[p].pc = "wa_set"
  /\ kvUser' = [kvUser EXCEPT ![req[p].user] = req[p].userData]
  /\ req' = [req EXCEPT ![p] = Finish(@, "ok")]
  /\ UNCHANGED <<clock, ticks, kvReferral, kvWithdrawal, kvBonus, started,
                 bonusGranted, debited, settleVars>>

\* POST /deposit-boost up to its kv.set (lines 350-374).
DepositBoostGet(p, u, amount) ==
  /\ CanBegin(p)
  /\ started' = started + 1
  /\ LET d == DepositBoostData(kvUser[u], amount)
         r == [Begun(p, "deposit-boost", u, "db_set") EXCEPT !.amount = amount]
     IN  req' = [req EXCEPT ![p] =
                   IF d.result = "ok" THEN [r EXCEPT !.userData = d.userData]
                   ELSE Finish([r EXCEPT !.userData = d.userData], d.result)]
  /\ UNCHANGED <<clock, ticks, storeVars, bonusGranted, debited, settleVars>>

\* kv.set of line 376, and the response.
DepositBoostSet(p) ==
  /\ req[p].pc = "db_set"
  /\ kvUser' = [kvUser EXCEPT ![req[p].user] = req[p].userData]
  /\ req' = [req EXCEPT ![p] = Finish(@, "ok")]
  /\ UNCHANGED <<clock, ticks, kvReferral, kvWithdrawal, kvBonus, started,
                 bonusGranted, debited, settleVars>>

\* POST /request-withdrawal up to its first kv.set (lines 386-435).
WithdrawalGet(p, u, amount) ==
  /\ CanBegin(p)
  /\ started' = started + 1
  /\ LET d == WithdrawalData(kvUser[u], clock, amount)
         r == [Begun(p, "request-withdrawal", u, "wd_setRecord")
                 EXCEPT !.amount = amount]
     IN  req' = [req EXCEPT ![p] =
                   IF d.result = "ok" THEN [r EXCEPT !.userData = d.userData]
                   ELSE Finish([r EXCEPT !.userData = d.userData,
                                         !.daysLeft = d.daysLeft], d.result)]
  /\ UNCHANGED <<clock, ticks, storeVars, bonusGranted, debited, settleVars>>

\* kv.set of line 437: the withdrawal record.
WithdrawalSetRecord(p) ==
  /\ req[p].pc = "wd_setRecord"
  /\ kvWithdrawal' = SetWithdrawal(kvWithdrawal, <<req[p].user, req[p].now>>,
                       WithdrawalRecord(req[p].user, req[p].now, req[p].amount))
  /\ req' = [req EXCEPT ![p].pc = "wd_setUser"]
  /\ UNCHANGED <<clock, ticks, kvUser, kvReferral, kvBonus, started,
                 bonusGranted, debited, settleVars>>

\* kv.set of line 438: the debited user record, and the response.
WithdrawalSetUser(p) ==
  /\ req[p].pc = "wd_setUser"
  /\ kvUser' = [kvUser EXCEPT ![req[p].user] = req[p].userData]
  /\ debited' = debited \cup {<<req[p].user, req[p].now>>}
  /\ req' = [req EXCEPT ![p] = Finish(@, "ok")]
  /\ UNCHANGED <<clock, ticks, kvReferral, kvWithdrawal, kvBonus, started,
                 bonusGranted, settleVars>>

\* POST /signup up to its first kv.set (lines 70-123): createUser issues an
\* id that no earlier signup was given.
SignupCreateUser(p, u) ==
  /\ CanBegin(p)
  /\ kvUser[u] = NoRecord
  /\ \A q \in Procs : InFlight(q) => req[q].user # u
  /\ started' = started + 1
  /\ req' = [req EXCEPT ![p] =
               [Begun(p, "signup", u, "su_setUser") EXCEPT
                  !.userData = NewUser(u, clock)]]
  /\ UNCHANGED <<clock, ticks, storeVars, bonusGranted, debited, settleVars>>

\* kv.set of line 126: the user record.
SignupSetUser(p) ==
  /\ req[p].pc = "su_setUser"
  /\ kvUser' = [kvUser EXCEPT ![req[p].user] = req[p].userData]
  /\ req' = [req EXCEPT ![p].pc = "su_setReferral"]
  /\ UNCHANGED <<clock, ticks, kvReferral, kvWithdrawal, kvBonus, started,
                 bonusGranted, debited, settleVars>>

\* kv.set of line 127: the referral index entry, and the response.
SignupSetReferral(p) ==
  /\ req[p].pc = "su_setReferral"
  /\ kvReferral' = (req[p].userData.referralCode :> req[p].user) @@ kvReferral
  /\ req' = [req EXCEPT ![p] = Finish(@, "ok")]
  /\ UNCHANGED <<clock, ticks, kvUser, kvWithdrawal, kvBonus, started,
                 bonusGranted, debited, settleVars>>

\* The admin test of lines 471 and 492 made true for every stored user.
IsAdminAnyUser(userData) == userData # NoRecord

\* The admin test of lines 471 and 492: the caller's record exists and its
\* e-mail address includes "admin".
IsAdmin(userData) == userData # NoRecord /\ userData.email \in AdminEmails

\* GET /admin/withdrawals up to its getByPrefix (lines 461-473).
AdminListGetUser(p, u) ==
  /\ CanBegin(p)
  /\ started' = started + 1
  /\ LET r == Begun(p, "admin-withdrawals", u, "al_getByPrefix")
     IN  req' = [req EXCEPT ![p] =
                   IF IsAdmin(kvUser[u]) THEN r ELSE Finish(r, "Forbidden")]
  /\ UNCHANGED <<clock, ticks, storeVars, bonusGranted, debited, settleVars>>

\* kv.getByPrefix of line 475, and the response.
AdminListGetByPrefix(p) ==
  /\ req[p].pc = "al_getByPrefix"
  /\ req' = [req EXCEPT ![p] = Finish([@ EXCEPT !.allWithdrawals = kvWithdrawal],
                                      "ok")]
  /\ UNCHANGED <<clock, ticks, storeVars, started, bonusGranted, debited,
                 settleVars>>

\* POST /admin/process-withdrawal up to its kv.get of the withdrawal
\* (lines 481-494).
AdminProcessGetUser(p, u, withdrawalId) ==
  /\ CanBegin(p)
  /\ started' = started + 1
  /\ LET r == [Begun(p, "admin-process-withdrawal", u, "ap_getWithdrawal")
                 EXCEPT !.withdrawalId = withdrawalId]
     IN  req' = [req EXCEPT ![p] =
                   IF IsAdmin(kvUser[u]) THEN r ELSE Finish(r, "Forbidden")]
  /\ UNCHANGED <<clock, ticks, storeVars, bonusGranted, debited, settleVars>>

\* The keys of the store as a request body can name them: withdrawal:<id>:<now>
\* is the pair the withdrawal records are stored under, user:<id> a tuple of
\* length one, referral:<CODE> of length three, referral_bonus:<a>:<b> of
\* length four.
UserKey(u) == <<u>>
ReferralKey(code) == <<code, 0, 0>>
BonusKey(referrer, referee) == <<referrer, referee, 0, 0>>

\* kv.get(key) has a value.
KvHas(key) ==
  CASE Len(key) = 1 -> key[1] \in DOMAIN kvUser /\ kvUser[key[1]] # NoRecord
    [] Len(key) = 2 -> key \in DOMAIN kvWithdrawal
    [] Len(key) = 3 -> key[1] \in DOMAIN kvReferral
    [] OTHER        -> <<key[1], key[2]>> \in kvBonus

\* admin/process-withdrawal without the time stamp of line 503.
AdminProcessNoStamp(p) ==
  /\ req[p].pc = "ap_getWithdrawal"
  /\ req' = [req EXCEPT ![p] =
               LET key == req[p].withdrawalId
               IN  IF ~KvHas(key) THEN Finish(@, "NotFound")
                   ELSE IF Len(key) > 2 THEN Finish(@, "InternalError")
                   ELSE IF Len(key) = 1
                     THEN [@ EXCEPT !.pc = "ap_set",
                                    !.withdrawalData =
                                      [status |-> "completed"]
                                        @@ kvUser[key[1]]]
                     ELSE [@ EXCEPT !.pc = "ap_set",
                                    !.withdrawalData =
                                      [kvWithdrawal[key] EXCEPT
                                         !.status = "completed"]]]
  /\ UNCHANGED <<clock, ticks, storeVars, started, bonusGranted, debited,
                 settleVars>>

\* kv.get of line 496 and lines 498-503: the value under the key the body
\* names, marked completed at the server time of line 503.  The value of a
\* referral or marker key is a string or a boolean: the assignment of line 502
\* throws in a module (strict code), and the request ends without a write.
AdminProcessGetWithdrawal(p) ==
  /\ req[p].pc = "ap_getWithdrawal"
  /\ req' = [req EXCEPT ![p] =
               LET key == req[p].withdrawalId
               IN  IF ~KvHas(key) THEN Finish(@, "NotFound")
                   ELSE IF Len(key) > 2 THEN Finish(@, "InternalError")
                   ELSE IF Len(key) = 1
                     THEN [@ EXCEPT !.pc = "ap_set",
                                    !.withdrawalData =
                                      [status |-> "completed",
                                       processedAt |-> clock]
                                        @@ kvUser[key[1]]]
                     ELSE [@ EXCEPT !.pc = "ap_set",
                                    !.withdrawalData =
                                      [kvWithdrawal[key] EXCEPT
                                         !.status = "completed",
                                         !.processedAt = clock]]]
  /\ UNCHANGED <<clock, ticks, storeVars, started, bonusGranted, debited,
                 settleVars>>

\* kv.set of line 505 under the key the body named, and the response.
AdminProcessSet(p) ==
  /\ req[p].pc = "ap_set"
  /\ LET key == req[p].withdrawalId
     IN  IF Len(key) = 1
           THEN /\ kvUser' = [kvUser EXCEPT ![key[1]] = req[p].withdrawalData]
                /\ UNCHANGED kvWithdrawal
           ELSE /\ kvWithdrawal' = SetWithdrawal(kvWithdrawal, key,
                                                 req[p].withdrawalData)
                /\ UNCHANGED kvUser
  /\ req' = [req EXCEPT ![p] = Finish(@, "ok")]
  /\ UNCHANGED <<clock, ticks, kvReferral, kvBonus, started, bonusGranted,
                 debited, settleVars>>

\* kv.get on the referral index: null when the key is absent.
GetReferral(code) ==
  IF code \in DOMAIN kvReferral THEN kvReferral[code] ELSE NoUser

\* apply-referral, lines 291-302: the link and, at three ads or more, the
\* two rate bonuses.
ApplyReferralData(userData, referrerId, referrerData) ==
  IF userData.adsWatchedToday >= ReferralAdThreshold
    THEN [bonus |-> TRUE,
          userData |-> [userData EXCEPT
                          !.referredBy = referrerId,
                          !.currentMiningRate = @ + RefereeBonusRate],
          referrerData |-> [referrerData EXCEPT
                              !.currentMiningRate = @ + ReferrerBonusRate,
                              !.referralCount = @ + 1]]
    ELSE [bonus |-> FALSE,
          userData |-> [userData EXCEPT !.referredBy = referrerId],
          referrerData |-> referrerData]

\* POST /apply-referral up to its second kv.get (lines 252-271).
ApplyReferralGetUser(p, u, code) ==
  /\ CanBegin(p)
  /\ started' = started + 1
  /\ LET rec == kvUser[u]
         r   == [Begun(p, "apply-referral", u, "ar_getCode") EXCEPT !.code = code]
     IN  req' = [req EXCEPT ![p] =
                   IF code = 0 THEN Finish(r, "Validation")
                   ELSE IF rec = NoRecord THEN Finish(r, "NotFound")
                   ELSE IF rec.referredBy # NoUser THEN Finish(r, "AlreadyReferred")
                   ELSE [r EXCEPT !.userData = rec]]
  /\ UNCHANGED <<clock, ticks, storeVars, bonusGranted, debited, settleVars>>

\* The index lookup without the own-code check of lines 280-282.
ApplyReferralGetCodeNoSelfCheck(p) ==
  /\ req[p].pc = "ar_getCode"
  /\ LET referrerId == GetReferral(req[p].code)
     IN  req' = [req EXCEPT ![p] =
                   IF referrerId = NoUser THEN Finish(@, "InvalidCode")
                   ELSE [@ EXCEPT !.pc = "ar_getReferrer", !.referrerId = referrerId]]
  /\ UNCHANGED <<clock, ticks, storeVars, started, bonusGranted, debited, settleVars>>

\* kv.get of the referral index (lines 274-282).
ApplyReferralGetCode(p) ==
  /\ req[p].pc = "ar_getCode"
  /\ LET referrerId == GetReferral(req[p].code)
     IN  req' = [req EXCEPT ![p] =
                   IF referrerId = NoUser THEN Finish(@, "InvalidCode")
                   ELSE IF referrerId = req[p].user THEN Finish(@, "SelfReferral")
                   ELSE [@ EXCEPT !.pc = "ar_getReferrer", !.referrerId = referrerId]]
  /\ UNCHANGED <<clock, ticks, storeVars, started, bonusGranted, debited, settleVars>>

\* kv.get of the referrer's record and the bonuses (lines 285-302).
ApplyReferralGetReferrer(p) ==
  /\ req[p].pc = "ar_getReferrer"
  /\ LET referrerData == kvUser[req[p].referrerId]
         d == ApplyReferralData(req[p].userData, req[p].referrerId, referrerData)
     IN  req' = [req EXCEPT ![p] =
                   IF referrerData = NoRecord THEN Finish(@, "ReferrerNotFound")
                   ELSE [@ EXCEPT !.pc = IF d.bonus THEN "ar_setReferrer" ELSE "ar_setUser",
                                  !.userData = d.userData,
                                  !.referrerData = d.referrerData]]
  /\ UNCHANGED <<clock, ticks, storeVars, started, bonusGranted, debited, settleVars>>

\* kv.set of line 303: the referrer's record.
ApplyReferralSetReferrer(p) ==
  /\ req[p].pc = "ar_setReferrer"
  /\ kvUser' = [kvUser EXCEPT ![req[p].referrerId] = req[p].referrerData]
  /\ req' = [req EXCEPT ![p].pc = "ar_setUser"]
  /\ UNCHANGED <<clock, ticks, kvReferral, kvWithdrawal, kvBonus, started,
                 bonusGranted, debited, settleVars>>

\* kv.set of line 306: the caller's record, and the response.
ApplyReferralSetUser(p) ==
  /\ req[p].pc = "ar_setUser"
  /\ kvUser' = [kvUser EXCEPT ![req[p].user] = req[p].userData]
  /\ req' = [req EXCEPT ![p] = Finish(@, "ok")]
  /\ UNCHANGED <<clock, ticks, kvReferral, kvWithdrawal, kvBonus, started,
                 bonusGranted, debited, settleVars>>

\* POST /check-referral-bonus up to its second kv.get (lines 313-326).
CheckBonusGetUser(p, u) ==
  /\ CanBegin(p)
  /\ started' = started + 1
  /\ LET rec == kvUser[u]
         r   == Begun(p, "check-referral-bonus", u, "cb_getReferrer")
     IN  req' = [req EXCEPT ![p] =
                   IF rec = NoRecord THEN Finish(r, "NotFound")
                   ELSE IF rec.referredBy # NoUser
                           /\ rec.adsWatchedToday >= ReferralAdThreshold
                     THEN [r EXCEPT !.userData = rec, !.referrerId = rec.referredBy]
                     ELSE Finish(r, "notGranted")]
  /\ UNCHANGED <<clock, ticks, storeVars, bonusGranted, debited, settleVars>>

\* kv.get of the referrer's record (lines 327-329).
CheckBonusGetReferrer(p) ==
  /\ req[p].pc = "cb_getReferrer"
  /\ LET referrerData == kvUser[req[p].referrerId]
     IN  req' = [req EXCEPT ![p] =
                   IF referrerData = NoRecord THEN Finish(@, "notGranted")
                   ELSE [@ EXCEPT !.pc = "cb_getMarker",
                                  !.referrerData = referrerData]]
  /\ UNCHANGED <<clock, ticks, storeVars, started, bonusGranted, debited, settleVars>>

\* The marker read of lines 331-336 crediting whatever the marker says.
CheckBonusGetMarkerIgnored(p) ==
  /\ req[p].pc = "cb_getMarker"
  /\ req' = [req EXCEPT ![p] =
               IF req[p].userData.totalMined > 0
                 THEN [@ EXCEPT !.pc = "cb_setReferrer",
                                !.referrerData.balance = @ + ReferralBonus]
                 ELSE Finish(@, "notGranted")]
  /\ UNCHANGED <<clock, ticks, storeVars, started, bonusGranted, debited, settleVars>>

\* The marker read of lines 331-336 without the totalMined > 0 condition.
CheckBonusGetMarkerAnyMined(p) ==
  /\ req[p].pc = "cb_getMarker"
  /\ LET bonusGiven == <<req[p].referrerId, req[p].user>> \in kvBonus
     IN  req' = [req EXCEPT ![p] =
                   IF ~bonusGiven
                     THEN [@ EXCEPT !.pc = "cb_setReferrer",
                                    !.referrerData.balance = @ + ReferralBonus]
                     ELSE Finish(@, "notGranted")]
  /\ UNCHANGED <<clock, ticks, storeVars, started, bonusGranted, debited, settleVars>>

\* The marker read of lines 331-336 deleting a marker it finds.
CheckBonusGetMarkerConsumed(p) ==
  /\ req[p].pc = "cb_getMarker"
  /\ LET bonusGiven == <<req[p].referrerId, req[p].user>> \in kvBonus
     IN  /\ req' = [req EXCEPT ![p] =
                      IF ~bonusGiven /\ req[p].userData.totalMined > 0
                        THEN [@ EXCEPT !.pc = "cb_setReferrer",
                                       !.referrerData.balance = @ + ReferralBonus]
                        ELSE Finish(@, "notGranted")]
         /\ kvBonus' = kvBonus \ {<<req[p].referrerId, req[p].user>>}
  /\ UNCHANGED <<clock, ticks, kvUser, kvReferral, kvWithdrawal, started,
                 bonusGranted, debited, settleVars>>

\* kv.get of the bonus marker and the credit in memory (lines 331-336).
CheckBonusGetMarker(p) ==
  /\ req[p].pc = "cb_getMarker"
  /\ LET bonusGiven == <<req[p].referrerId, req[p].user>> \in kvBonus
     IN  req' = [req EXCEPT ![p] =
                   IF ~bonusGiven /\ req[p].userData.totalMined > 0
                     THEN [@ EXCEPT !.pc = "cb_setReferrer",
                                    !.referrerData.balance = @ + ReferralBonus]
                     ELSE Finish(@, "notGranted")]
  /\ UNCHANGED <<clock, ticks, storeVars, started, bonusGranted, debited, settleVars>>

\* kv.set of line 337: the credited referrer record.
CheckBonusSetReferrer(p) ==
  /\ req[p].pc = "cb_setReferrer"
  /\ kvUser' = [kvUser EXCEPT ![req[p].referrerId] = req[p].referrerData]
  /\ bonusGranted' = [bonusGranted EXCEPT ![req[p].referrerId] = @ + 1]
  /\ req' = [req EXCEPT ![p].pc = "cb_setMarker"]
  /\ UNCHANGED <<clock, ticks, kvReferral, kvWithdrawal, kvBonus, started,
                 debited, settleVars>>

\* kv.set of line 338: the marker, and the response.
CheckBonusSetMarker(p) ==
  /\ req[p].pc = "cb_setMarker"
  /\ kvBonus' = kvBonus \cup {<<req[p].referrerId, req[p].user>>}
  /\ req' = [req EXCEPT ![p] = Finish(@, "granted")]
  /\ UNCHANGED <<clock, ticks, kvUser, kvReferral, kvWithdrawal, started,
                 bonusGranted, debited, settleVars>>

\* ------------------------------------------------------- specifications
\* The serving states start from accounts created at time 0 whose earnings
\* were last settled (by one mining-status) at InitTime.
Served(u) == Settle(NewUser(u, 0), InitTime)

\* The record after k watch-ad requests at InitTime, as far as they succeed.
RECURSIVE WatchAds(_, _)
WatchAds(rec, k) ==
  IF k = 0 THEN rec
  ELSE LET d == WatchAdData(rec, InitTime)
       IN  IF d.result = "ok" THEN WatchAds(d.userData, k - 1) ELSE rec

\* The same account after k watch-ad requests at InitTime.
ServedWithAds(u, k) == WatchAds(Served(u), k)

Serving(records) ==
  /\ clock = InitTime
  /\ ticks = 0
  /\ kvUser = records
  /\ kvReferral = [c \in {generateReferralCode(u) : u \in Users} |->
                     CHOOSE u \in Users : generateReferralCode(u) = c]
  /\ kvWithdrawal = << >>
  /\ kvBonus = {}
  /\ req = [p \in Procs |-> IdleReq]
  /\ started = 0
  /\ bonusGranted = [u \in Users |-> 0]
  /\ debited = {}
  /\ NoSettleRun

\* Amounts sent to request-withdrawal: below the minimum, the minimum, and
\* one unit more than the balance stored at InitTime.
WithdrawalAmounts == {MinimumWithdrawal - 1, MinimumWithdrawal, InitTime + 1}

\* Amounts (whole dollars) sent to deposit-boost.
DepositAmounts == {1, 2}

\* The ledger requests of one user's record, overlapping freely.
InitLedger == Serving([u \in Users |-> Served(u)])

LedgerStep(p) ==
  \/ \E u \in Users : MiningStatusGet(p, u)
  \/ MiningStatusSet(p)
  \/ \E u \in Users : WatchAdGet(p, u)
  \/ WatchAdSet(p)
  \/ \E u \in Users, a \in DepositAmounts : DepositBoostGet(p, u, a)
  \/ DepositBoostSet(p)
  \/ \E u \in Users, a \in WithdrawalAmounts : WithdrawalGet(p, u, a)
  \/ WithdrawalSetRecord(p)
  \/ WithdrawalSetUser(p)

NextLedger == Tick \/ \E p \in Procs : LedgerStep(p)

SpecLedger == InitLedger /\ [][NextLedger]_vars

\* The same requests, each received only when no other is being handled.
Alone(p) == \A q \in Procs \ {p} : ~InFlight(q)

NextSeq == Tick \/ \E p \in Procs : Alone(p) /\ LedgerStep(p)

SpecSeq == InitLedger /\ [][NextSeq]_vars

\* The referral requests, overlapping freely with mining-status; the first
\* user has watched three ads in the current window.
FirstUser == CHOOSE u \in Users : \A v \in Users : u <= v

InitReferral ==
  Serving([u \in Users |->
             IF u = FirstUser THEN ServedWithAds(u, ReferralAdThreshold)
             ELSE Served(u)])

ReferralStep(p) ==
  \/ \E u \in Users : MiningStatusGet(p, u)
  \/ MiningStatusSet(p)
  \/ \E u \in Users, c \in Codes : ApplyReferralGetUser(p, u, c)
  \/ ApplyReferralGetCode(p)
  \/ ApplyReferralGetReferrer(p)
  \/ ApplyReferralSetReferrer(p)
  \/ ApplyReferralSetUser(p)
  \/ \E u \in Users : CheckBonusGetUser(p, u)
  \/ CheckBonusGetReferrer(p)
  \/ CheckBonusGetMarker(p)
  \/ CheckBonusSetReferrer(p)
  \/ CheckBonusSetMarker(p)

NextReferral == Tick \/ \E p \in Procs : ReferralStep(p)

SpecReferral == InitReferral /\ [][NextReferral]_vars

\* ------------------------------------------------ settle as a function
\* Timestamps given to settle, around the 24 h boundary.
SettleTimes == {0, 1, DAY - 1, DAY, DAY + 1, 2 * DAY + 1}

\* A record after k ad boosts in its window, with its two timestamps.
SettleInput(k, bal, reset, start) ==
  [NewUser(IdTail, 0) EXCEPT !.balance = bal, !.totalMined = bal,
                        !.currentMiningRate = BaseMiningRate + k * AdBoostIncrement,
                        !.adsWatchedToday = k,
                        !.lastResetTime = reset,
                        !.miningStartTime = start]

InitSettle ==
  /\ EmptyStore
  /\ NoProcs
  /\ snows = << >>
  /\ \E k \in {0, 1, ReferralAdThreshold}, bal \in {0, 7},
        reset \in SettleTimes, start \in SettleTimes :
       /\ reset <= start
       /\ shist = << SettleInput(k, bal, reset, start) >>

\* One call of settle(record, now) on the record the previous call returned.
SettleCall ==
  /\ Len(snows) < MaxSettles
  /\ \E now \in SettleTimes :
       /\ shist' = Append(shist, Settle(shist[Len(shist)], now))
       /\ snows' = Append(snows, now)
  /\ UNCHANGED procVars

NextSettle == SettleCall

SpecSettle == InitSettle /\ [][NextSettle]_vars

Max0(x) == IF x > 0 THEN x ELSE 0

SettleRuns == 1..Len(snows)

\* C7: every settle increases balance and totalMined by exactly
\* currentMiningRate * max(0, now - miningStartTime) and sets miningStartTime
\* to now; a miningStartTime later than now counts as no elapsed time.
C7_SettleCreditsClampedElapsed ==
  \A i \in SettleRuns :
    LET old == shist[i]
        new == shist[i + 1]
        earned == old.currentMiningRate * Max0(snows[i] - old.miningStartTime)
    IN  /\ new.balance - old.balance = earned
        /\ new.totalMined - old.totalMined = earned
        /\ new.miningStartTime = snows[i]

\* C8: a settle that finds 24 h or more since lastResetTime credits the whole
\* interval since miningStartTime at the rate stored before the reset and then
\* resets currentMiningRate, adsWatchedToday and lastResetTime; a settle that
\* finds less than 24 h leaves these three fields alone.
C8_RolloverAfterEarnings ==
  \A i \in SettleRuns :
    LET old == shist[i]
        new == shist[i + 1]
        now == snows[i]
        earned == old.currentMiningRate * (now - old.miningStartTime)
    IN  /\ now - old.lastResetTime >= DAY =>
             /\ new.balance = old.balance + earned
             /\ new.totalMined = old.totalMined + earned
             /\ new.currentMiningRate = old.baseMiningRate
             /\ new.adsWatchedToday = 0
             /\ new.lastResetTime = now
        /\ now - old.lastResetTime < DAY =>
             /\ new.currentMiningRate = old.currentMiningRate
             /\ new.adsWatchedToday = old.adsWatchedToday
             /\ new.lastResetTime = old.lastResetTime

\* A boosted record settled after more than two whole windows.
C8_Witness ==
  \E i \in SettleRuns :
    /\ snows[i] - shist[i].lastResetTime >= 2 * DAY
    /\ snows[i] > shist[i].miningStartTime
    /\ shist[i].currentMiningRate > shist[i].baseMiningRate
    /\ shist[i + 1].balance > shist[i].balance
    /\ shist[i + 1].adsWatchedToday = 0

\* C9: a second settle with the same now changes none of balance, totalMined,
\* currentMiningRate, adsWatchedToday, lastResetTime, miningStartTime.
C9_SettleIdempotent ==
  \A i \in SettleRuns :
    (i + 1 \in SettleRuns /\ snows[i + 1] = snows[i]) =>
      LET one == shist[i + 1]
          two == shist[i + 2]
      IN  /\ two.balance = one.balance
          /\ two.totalMined = one.totalMined
          /\ two.currentMiningRate = one.currentMiningRate
          /\ two.adsWatchedToday = one.adsWatchedToday
          /\ two.lastResetTime = one.lastResetTime
          /\ two.miningStartTime = one.miningStartTime

\* Two settles with the same now, the first of which credited earnings and
\* rolled the window over.
C9_Witness ==
  \E i \in SettleRuns :
    /\ i + 1 \in SettleRuns
    /\ snows[i + 1] = snows[i]
    /\ snows[i] - shist[i].lastResetTime >= DAY
    /\ shist[i].adsWatchedToday > 0
    /\ shist[i + 1].balance > shist[i].balance
    /\ shist[i + 2] = shist[i + 1]

\* ------------------------------------------------------------ ledger
Quiet == \A p \in Procs : ~InFlight(p)

\* The record a ledger request stores when it is the only request running
\* on record rec (rec itself when it answers with an error).
RunAlone(r, rec) ==
  LET d == CASE r.op = "mining-status" -> MiningStatusData(rec, r.now)
             [] r.op = "watch-ad" -> WatchAdData(rec, r.now)
             [] r.op = "deposit-boost" -> DepositBoostData(rec, r.amount)
             [] r.op = "request-withdrawal" -> WithdrawalData(rec, r.now, r.amount)
  IN  IF d.result = "ok" THEN d.userData ELSE rec

\* C1: when two requests on the same user's record have both completed, the
\* stored record is the one that running them one after the other, in one of
\* the two orders, leaves behind.
C1_TwoRequestsSerializable ==
  \A p, q \in Procs :
    ( /\ p # q
      /\ started = 2
      /\ req[p].pc = "done"
      /\ req[q].pc = "done"
      /\ req[p].user = req[q].user )
    => LET u == req[p].user
       IN  kvUser[u] \in { RunAlone(req[q], RunAlone(req[p], Served(u))),
                           RunAlone(req[p], RunAlone(req[q], Served(u))) }

\* The withdrawal keys of user u, and the sum of their amounts added to acc.
WithdrawalKeys(u) == {k \in DOMAIN kvWithdrawal : k[1] = u}

RECURSIVE AddAmounts(_, _)
AddAmounts(acc, keys) ==
  IF keys = {} THEN acc
  ELSE LET k == CHOOSE x \in keys : TRUE
       IN  AddAmounts(acc + kvWithdrawal[k].amount, keys \ {k})

\* C2: once no request is in flight, each user's balance plus the amounts of
\* the user's withdrawal records equals totalMined plus the referral bonuses
\* credited to the user, and the balance is not overdrawn.
C2_BalanceConserved ==
  Quiet =>
    \A u \in Users :
      /\ AddAmounts(kvUser[u].balance - kvUser[u].totalMined, WithdrawalKeys(u))
           = ReferralBonus * bonusGranted[u]
      /\ kvUser[u].balance >= 0

\* C4: in every state a withdrawal record is in the store exactly when the
\* debit of that withdrawal is in the stored user record.
C4_DebitAndRecordTogether ==
  DOMAIN kvWithdrawal = debited

\* C5: with no other request running, a successful request-withdrawal adds
\* exactly one withdrawal record, pending and of the requested amount, and
\* lowers the stored balance by the amount; a failing one writes nothing.
C5_WithdrawalInIsolation ==
  [][\A p \in Procs :
       /\ (req[p].pc = "wd_setRecord" /\ req'[p].pc = "wd_setUser") =>
            /\ Cardinality(DOMAIN kvWithdrawal') = Cardinality(DOMAIN kvWithdrawal) + 1
            /\ \E k \in DOMAIN kvWithdrawal' \ DOMAIN kvWithdrawal :
                 /\ kvWithdrawal'[k].status = "pending"
                 /\ kvWithdrawal'[k].amount = req[p].amount
            /\ \A k \in DOMAIN kvWithdrawal : kvWithdrawal'[k] = kvWithdrawal[k]
       /\ (req[p].pc = "wd_setUser" /\ req'[p].pc = "done") =>
            /\ kvUser'[req[p].user].balance
                 = kvUser[req[p].user].balance - req[p].amount
            /\ UNCHANGED kvWithdrawal
       /\ ( /\ ~InFlight(p)
            /\ req'[p] # req[p]
            /\ req'[p].op = "request-withdrawal"
            /\ req'[p].pc = "done" ) => UNCHANGED storeVars
    ]_vars

\* C10: request-withdrawal decides on the settled balance: it answers
\* InsufficientBalance only when the balance with the earnings up to now is
\* below the amount, and the record it stores has miningStartTime = now and
\* the settled balance less the amount.
C10_WithdrawalSettlesFirst ==
  \A p \in Procs :
    req[p].op = "request-withdrawal" =>
      /\ req[p].result = "InsufficientBalance" =>
           Settle(req[p].userData, req[p].now).balance < req[p].amount
      /\ req[p].pc \in {"wd_setRecord", "wd_setUser"} \/ req[p].result = "ok" =>
           req[p].userData.miningStartTime = req[p].now

\* ---------------------------------------------------------- referrals
\* C3: the 0.05 $ credit of a (referrer, referee) pair is in the referrer's
\* stored balance at most once.  No withdrawal runs here, so balance less
\* totalMined is the sum of the credits the stored balance holds.
C3_BonusCreditedOnce ==
  \A r \in Users :
    kvUser[r].balance - kvUser[r].totalMined
      <= ReferralBonus * Cardinality(Users \ {r})

\* C6: referredBy is never the user's own id and, once it holds an id,
\* keeps that id in every later state.
C6_ReferredByWriteOnce ==
  [][\A u \in Users :
       /\ kvUser'[u].referredBy # u
       /\ kvUser[u].referredBy # NoUser =>
            kvUser'[u].referredBy = kvUser[u].referredBy
    ]_vars

\* ------------------------------------------- referrals, one at a time
\* The referral requests handled by one task: each is received only after
\* the one before it was answered.
OneTask == CHOOSE p \in Procs : \A q \in Procs : p <= q

NextReferralSeq == Tick \/ ReferralStep(OneTask)

SpecReferralSeq == InitReferral /\ [][NextReferralSeq]_vars

\* C11: a step that raises a stored currentMiningRate stores a record whose
\* earnings are settled up to the now of the request writing it
\* (miningStartTime = now), and apply-referral and check-referral-bonus take
\* the adsWatchedToday >= 3 branch only on a record with no rollover due.
C11_RateRaisedOnSettledRecord ==
  [][/\ \A u \in Users :
          kvUser'[u].currentMiningRate > kvUser[u].currentMiningRate =>
            \E p \in Procs : /\ InFlight(p)
                             /\ kvUser'[u].miningStartTime = req[p].now
     /\ \A p \in Procs :
          req'[p].pc \in {"ar_setReferrer", "cb_getReferrer"} =>
            req'[p].now - req'[p].userData.lastResetTime < DAY
    ]_vars

\* ------------------------------------------------------- the daily limit
\* The ad requests of accounts at the daily limit: the first user has
\* watched as many ads as the cap allows, the others one less.
BoostAds(u) == IF u = FirstUser THEN DefaultBoostCap ELSE DefaultBoostCap - 1

InitBoost == Serving([u \in Users |-> ServedWithAds(u, BoostAds(u))])

\* Amounts (whole dollars) sent to deposit-boost: below the minimum, one
\* unit, two units and a half.
BoostAmounts == {1, 2, 5}

BoostStep(p) ==
  \/ \E u \in Users : MiningStatusGet(p, u)
  \/ MiningStatusSet(p)
  \/ \E u \in Users : WatchAdGet(p, u)
  \/ WatchAdSet(p)
  \/ \E u \in Users, a \in BoostAmounts : DepositBoostGet(p, u, a)
  \/ DepositBoostSet(p)

NextBoost == Tick \/ \E p \in Procs : BoostStep(p)

SpecBoost == InitBoost /\ [][NextBoost]_vars

NextBoostSeq == Tick \/ BoostStep(OneTask)

SpecBoostSeq == InitBoost /\ [][NextBoostSeq]_vars

\* A step in which task p receives a request of kind op.
Receives(p, op) ==
  /\ ~InFlight(p)
  /\ req'[p] # req[p]
  /\ req'[p].op = op

\* C12: with no other request running, watch-ad answers DailyLimitReached,
\* writing nothing, exactly when the settled record has adsWatchedToday >=
\* depositBoostCap; otherwise the record it stores is the settled record with
\* currentMiningRate + AD_BOOST_INCREMENT, adsWatchedToday + 1 and
\* lastAdWatchTime = now, and depositBoostCap, baseMiningRate, referredBy and
\* referralCount as read.
C12_WatchAdContract ==
  [][\A p \in Procs :
       /\ Receives(p, "watch-ad") =>
            LET settled == Settle(kvUser[req'[p].user], clock)
            IN  /\ req'[p].result = "DailyLimitReached"
                     <=> settled.adsWatchedToday >= settled.depositBoostCap
                /\ req'[p].result = "DailyLimitReached" <=> req'[p].pc = "done"
                /\ UNCHANGED storeVars
       /\ (req[p].pc = "wa_set" /\ req'[p].pc = "done") =>
            LET u == req[p].user
                settled == Settle(kvUser[u], req[p].now)
            IN  /\ req'[p].result = "ok"
                /\ kvUser'[u].currentMiningRate
                     = settled.currentMiningRate + AdBoostIncrement
                /\ kvUser'[u].adsWatchedToday = settled.adsWatchedToday + 1
                /\ kvUser'[u].lastAdWatchTime = req[p].now
                /\ kvUser'[u].balance = settled.balance
                /\ kvUser'[u].depositBoostCap = kvUser[u].depositBoostCap
                /\ kvUser'[u].baseMiningRate = kvUser[u].baseMiningRate
                /\ kvUser'[u].referredBy = kvUser[u].referredBy
                /\ kvUser'[u].referralCount = kvUser[u].referralCount
    ]_vars

\* A watch-ad has just been refused at the limit, and the store holds the
\* record of another user's successful watch-ad.
C12_Witness ==
  \E p \in Procs, u \in Users :
    /\ req[p].op = "watch-ad"
    /\ req[p].result = "DailyLimitReached"
    /\ req[p].userData.adsWatchedToday = req[p].userData.depositBoostCap
    /\ u # req[p].user
    /\ kvUser[u].adsWatchedToday = BoostAds(u) + 1
    /\ kvUser[u].currentMiningRate
         = BaseMiningRate + (BoostAds(u) + 1) * AdBoostIncrement

\* C13: when two watch-ad calls of one user, overlapping or not, have both
\* succeeded in the window that began at InitTime, and nothing else ran, the
\* stored adsWatchedToday counts both and currentMiningRate is
\* baseMiningRate + adsWatchedToday * AD_BOOST_INCREMENT.
C13_AdsCountedPerSuccess ==
  \A p, q \in Procs :
    ( /\ p # q
      /\ started = 2
      /\ req[p].op = "watch-ad" /\ req[p].result = "ok"
      /\ req[q].op = "watch-ad" /\ req[q].result = "ok"
      /\ req[p].user = req[q].user
      /\ req[p].now - InitTime < DAY
      /\ req[q].now - InitTime < DAY )
    => LET u == req[p].user
       IN  /\ kvUser[u].adsWatchedToday = BoostAds(u) + 2
           /\ kvUser[u].currentMiningRate
                = BaseMiningRate + (BoostAds(u) + 2) * AdBoostIncrement

\* Task q receives a watch-ad of the user whose watch-ad task p refused with
\* DailyLimitReached, in the window in which p refused it.
WatchAdAfterLimit(p, q) ==
  /\ req[p].op = "watch-ad"
  /\ req[p].result = "DailyLimitReached"
  /\ Receives(q, "watch-ad")
  /\ req'[q].user = req[p].user
  /\ clock - req[p].userData.lastResetTime < DAY

\* C14: once a watch-ad of a user was refused with DailyLimitReached, every
\* watch-ad of that user received at a later time, before the rollover, is
\* refused with DailyLimitReached, whatever ran in between.
C14_LimitTerminal ==
  \A p, q \in Procs :
    ( /\ req[p].op = "watch-ad"
      /\ req[p].result = "DailyLimitReached"
      /\ req[q].op = "watch-ad"
      /\ req[q].pc \in {"wa_set", "done"}
      /\ req[q].user = req[p].user
      /\ req[q].now > req[p].now
      /\ req[q].now - req[p].userData.lastResetTime < DAY )
    => req[q].result = "DailyLimitReached"

\* C14, amended: ... is refused with DailyLimitReached as long as the stored
\* record has no rollover due and still has adsWatchedToday >=
\* depositBoostCap; a deposit-boost that raised the cap lifts the limit.
C14_LimitHoldsWhileAtCap ==
  [][\A p, q \in Procs :
       ( /\ WatchAdAfterLimit(p, q)
         /\ clock - kvUser[req[p].user].lastResetTime < DAY
         /\ kvUser[req[p].user].adsWatchedToday
              >= kvUser[req[p].user].depositBoostCap )
       => req'[q].result = "DailyLimitReached"
    ]_vars

\* Two refusals of one user in one window, the second at a later time.
C14_Witness ==
  \E p, q \in Procs :
    /\ req[p].op = "watch-ad" /\ req[p].result = "DailyLimitReached"
    /\ req[q].op = "watch-ad" /\ req[q].result = "DailyLimitReached"
    /\ req[q].user = req[p].user
    /\ req[q].now > req[p].now
    /\ req[q].userData.lastResetTime = req[p].userData.lastResetTime

\* A record at its daily limit whose window ended by the time now.
AtLimitAfterWindow(rec, now) ==
  /\ rec.depositBoostCap > 0
  /\ rec.adsWatchedToday = rec.depositBoostCap
  /\ now - rec.lastResetTime >= DAY

\* C15: for a stored record with adsWatchedToday = depositBoostCap > 0 and
\* 24 h or more since lastResetTime, the next mining-status stores
\* adsWatchedToday = 0, and the next watch-ad succeeds and stores
\* adsWatchedToday = 1 and currentMiningRate = baseMiningRate +
\* AD_BOOST_INCREMENT.
C15_LimitLiftsAtRollover ==
  [][\A p \in Procs :
       LET u == req'[p].user
       IN  /\ ( /\ Receives(p, "watch-ad")
                /\ AtLimitAfterWindow(kvUser[u], clock) )
              => req'[p].pc = "wa_set"
           /\ ( /\ req[p].pc = "wa_set" /\ req'[p].pc = "done"
                /\ AtLimitAfterWindow(kvUser[u], req[p].now) )
              => /\ req'[p].result = "ok"
                 /\ kvUser'[u].adsWatchedToday = 1
                 /\ kvUser'[u].currentMiningRate
                      = kvUser[u].baseMiningRate + AdBoostIncrement
           /\ ( /\ req[p].pc = "ms_set" /\ req'[p].pc = "done"
                /\ AtLimitAfterWindow(kvUser[u], req[p].now) )
              => kvUser'[u].adsWatchedToday = 0
    ]_vars

\* The first user, at the limit since InitTime, had a watch-ad stored that
\* began a new window.
C15_Witness ==
  \E p \in Procs :
    /\ req[p].op = "watch-ad"
    /\ req[p].result = "ok"
    /\ req[p].user = FirstUser
    /\ req[p].now - InitTime >= DAY
    /\ kvUser[FirstUser].lastResetTime = req[p].now
    /\ kvUser[FirstUser].depositBoostCap = DefaultBoostCap
    /\ kvUser[FirstUser].adsWatchedToday = 1

\* C16: deposit-boost answers BelowMinimum, writing nothing, when amount < 2;
\* otherwise the record it stores is the record read with depositBoostCap
\* raised by floor(amount / 2) * 50 and every other field, balance,
\* totalMined, currentMiningRate and adsWatchedToday among them, as read.
C16_DepositBoostCapacityOnly ==
  [][\A p \in Procs :
       /\ Receives(p, "deposit-boost") =>
            /\ req'[p].result = "BelowMinimum" <=> req'[p].amount < MinimumDeposit
            /\ req'[p].amount >= MinimumDeposit => req'[p].pc = "db_set"
            /\ UNCHANGED storeVars
       /\ (req[p].pc = "db_set" /\ req'[p].pc = "done") =>
            LET u == req[p].user
            IN  /\ req'[p].result = "ok"
                /\ kvUser'[u] =
                     [kvUser[u] EXCEPT !.depositBoostCap =
                        @ + (req[p].amount \div 2) * AdsPerDepositUnit]
    ]_vars

\* A deposit of $5 was stored on a record with the cap of signup: two
\* whole units.
C16_Witness ==
  \E p \in Procs :
    /\ req[p].op = "deposit-boost"
    /\ req[p].result = "ok"
    /\ req[p].amount = 5
    /\ kvUser[req[p].user].depositBoostCap
         = DefaultBoostCap + 2 * AdsPerDepositUnit

\* C17: depositBoostCap never decreases: the stored cap of a user is never
\* below the cap that a completed deposit-boost of that user stored.
C17_CapNeverLowered ==
  \A p \in Procs :
    (req[p].op = "deposit-boost" /\ req[p].result = "ok") =>
      kvUser[req[p].user].depositBoostCap >= req[p].userData.depositBoostCap

C19_ReferralRejections ==
  [][\A p \in Procs :
       /\ (Receives(p, "apply-referral") /\ req'[p].code # 0) =>
            /\ req'[p].result = "AlreadyReferred"
                 <=> kvUser[req'[p].user].referredBy # NoUser
            /\ req'[p].result \in {"AlreadyReferred", "none"}
            /\ UNCHANGED storeVars
       /\ (req[p].pc = "ar_getCode" /\ req'[p] # req[p]) =>
            LET known == req[p].code \in DOMAIN kvReferral
            IN  /\ req'[p].result = "InvalidCode" <=> ~known
                /\ req'[p].result = "SelfReferral"
                     <=> (known /\ kvReferral[req[p].code] = req[p].user)
                /\ req'[p].result \in {"InvalidCode", "SelfReferral", "none"}
                /\ UNCHANGED storeVars
    ]_vars

\* A linked user who sent the own code was answered AlreadyReferred.
C19_Witness ==
  \E p \in Procs :
    /\ req[p].op = "apply-referral"
    /\ req[p].result = "AlreadyReferred"
    /\ req[p].code = generateReferralCode(req[p].user)
    /\ kvUser[req[p].user].referredBy # NoUser

\* C20: a successful apply-referral whose referee has adsWatchedToday >= 3
\* stores the referee with currentMiningRate raised by the referee bonus and
\* the referrer with currentMiningRate raised by 2 * AD_BOOST_INCREMENT and
\* referralCount raised by 1; below three ads it stores only referredBy, and
\* no other step ever changes a referralCount.
C20_ReferralBoosts ==
  [][\A p \in Procs :
       /\ ( /\ req[p].pc = "ar_getReferrer"
            /\ req'[p].pc \in {"ar_setReferrer", "ar_setUser"} ) =>
            LET referee  == req[p].userData
                referrer == kvUser[req[p].referrerId]
            IN  IF referee.adsWatchedToday >= ReferralAdThreshold
                  THEN /\ req'[p].pc = "ar_setReferrer"
                       /\ req'[p].userData =
                            [referee EXCEPT
                               !.referredBy = req[p].referrerId,
                               !.currentMiningRate = @ + RefereeBonusRate]
                       /\ req'[p].referrerData =
                            [referrer EXCEPT
                               !.currentMiningRate = @ + 2 * AdBoostIncrement,
                               !.referralCount = @ + 1]
                  ELSE /\ req'[p].pc = "ar_setUser"
                       /\ req'[p].userData =
                            [referee EXCEPT !.referredBy = req[p].referrerId]
       /\ (req[p].pc = "ar_setReferrer" /\ req'[p].pc = "ar_setUser") =>
            kvUser' = [kvUser EXCEPT ![req[p].referrerId] = req[p].referrerData]
       /\ (req[p].pc = "ar_setUser" /\ req'[p].pc = "done") =>
            kvUser' = [kvUser EXCEPT ![req[p].user] = req[p].userData]
       /\ \A u \in Users :
            kvUser'[u].referralCount # kvUser[u].referralCount =>
              \E q \in Procs : req[q].pc = "ar_setReferrer" /\ req[q].referrerId = u
    ]_vars

\* C21: with requests handled one at a time, the credit of check-referral-bonus
\* is stored only while the pair's marker is absent and adds 0.05 $ to the
\* referrer's balance; a call received when the marker of (referredBy, caller)
\* is set writes nothing and answers bonusApplied false.
C21_BonusIdempotent ==
  [][\A p \in Procs :
       /\ (req[p].pc = "cb_setReferrer" /\ req'[p].pc = "cb_setMarker") =>
            /\ <<req[p].referrerId, req[p].user>> \notin kvBonus
            /\ kvUser' = [kvUser EXCEPT
                            ![req[p].referrerId].balance = @ + ReferralBonus]
       /\ (req[p].pc = "cb_setMarker" /\ req'[p].pc = "done") =>
            req'[p].result = "granted"
       /\ ( /\ req'[p].op = "check-referral-bonus"
            /\ req'[p] # req[p]
            /\ <<kvUser[req'[p].user].referredBy, req'[p].user>> \in kvBonus ) =>
            /\ UNCHANGED storeVars
            /\ req'[p].result \in {"none", "notGranted"}
            /\ req'[p].pc \in {"cb_getReferrer", "cb_getMarker", "done"}
    ]_vars

\* A second call for a pair whose credit was stored once was answered
\* bonusApplied false after reading the marker.
C21_Witness ==
  \E p \in Procs :
    /\ req[p].op = "check-referral-bonus"
    /\ req[p].result = "notGranted"
    /\ req[p].referrerId # NoUser
    /\ <<req[p].referrerId, req[p].user>> \in kvBonus
    /\ bonusGranted[req[p].referrerId] = 1
    /\ kvUser[req[p].referrerId].balance
         = kvUser[req[p].referrerId].totalMined + ReferralBonus

\* ------------------------------------------------- the referral bonus
\* Accounts with three ads watched: the first has mined since time 0, the
\* others signed up at InitTime and have mined nothing yet.
BonusRecord(u) ==
  IF u = FirstUser THEN ServedWithAds(u, ReferralAdThreshold)
  ELSE WatchAds(NewUser(u, InitTime), ReferralAdThreshold)

InitBonus == Serving([u \in Users |-> BonusRecord(u)])

SpecBonusSeq == InitBonus /\ [][NextReferralSeq]_vars

\* The grant conditions of check-referral-bonus on the stored records.
BonusDue(u) ==
  /\ kvUser[u].referredBy # NoUser
  /\ kvUser[u].adsWatchedToday >= ReferralAdThreshold
  /\ kvUser[u].totalMined > 0
  /\ <<kvUser[u].referredBy, u>> \notin kvBonus

\* C22: with requests handled one at a time, check-referral-bonus stores the
\* 0.05 $ credit, then the marker, and answers bonusApplied true exactly when
\* the caller has a referredBy, adsWatchedToday >= 3, totalMined > 0 and no
\* marker for (referredBy, caller); otherwise it answers bonusApplied false
\* and writes nothing.
C22_BonusGrantedIffDue ==
  [][\A p \in Procs :
       LET u == req'[p].user
       IN  /\ Receives(p, "check-referral-bonus") =>
                /\ UNCHANGED storeVars
                /\ IF /\ kvUser[u].referredBy # NoUser
                      /\ kvUser[u].adsWatchedToday >= ReferralAdThreshold
                     THEN req'[p].pc = "cb_getReferrer"
                     ELSE req'[p].result = "notGranted"
           /\ (req[p].pc = "cb_getReferrer" /\ req'[p] # req[p]) =>
                /\ UNCHANGED storeVars
                /\ req'[p].pc = "cb_getMarker"
           /\ (req[p].pc = "cb_getMarker" /\ req'[p] # req[p]) =>
                /\ UNCHANGED storeVars
                /\ IF BonusDue(u)
                     THEN req'[p].pc = "cb_setReferrer"
                     ELSE req'[p].result = "notGranted"
           /\ (req[p].pc = "cb_setReferrer" /\ req'[p] # req[p]) =>
                /\ req'[p].pc = "cb_setMarker"
                /\ kvUser' = [kvUser EXCEPT
                                ![kvUser[u].referredBy].balance = @ + ReferralBonus]
                /\ UNCHANGED kvBonus
           /\ (req[p].pc = "cb_setMarker" /\ req'[p] # req[p]) =>
                /\ req'[p].result = "granted"
                /\ kvBonus' = kvBonus \cup {<<kvUser[u].referredBy, u>>}
                /\ UNCHANGED kvUser
    ]_vars

\* A linked caller with three ads who had mined nothing was answered
\* bonusApplied false after the marker read, the marker being absent.
C22_Witness ==
  \E p \in Procs :
    /\ req[p].op = "check-referral-bonus"
    /\ req[p].result = "notGranted"
    /\ req[p].referrerData # NoRecord
    /\ req[p].userData.totalMined = 0
    /\ <<req[p].referrerId, req[p].user>> \notin kvBonus

\* C23: a referral bonus marker that is in the store is in the store in every
\* later state.
C23_MarkerNeverReset ==
  [][kvBonus \subseteq kvBonus']_vars

\* A marker was stored, and a request received at a later time has been
\* answered with the marker still in the store.
C23_Witness ==
  \E p, q \in Procs :
    /\ req[p].op = "check-referral-bonus"
    /\ req[p].result = "granted"
    /\ <<req[p].referrerId, req[p].user>> \in kvBonus
    /\ req[q].pc = "done"
    /\ req[q].now > req[p].now

\* ---------------------------------------------------------- withdrawals
\* The first user has been mining since time 0 and may withdraw; the others
\* signed up at InitTime.
WithdrawRecord(u) == IF u = FirstUser THEN Served(u) ELSE NewUser(u, InitTime)

InitWithdraw == Serving([u \in Users |-> WithdrawRecord(u)])

\* Amounts sent to request-withdrawal: below the minimum, the minimum, the
\* balance stored at InitTime, and one unit more.
AmountsAroundBalance ==
  {MinimumWithdrawal - 1, MinimumWithdrawal, InitTime, InitTime + 1}

WithdrawStep(p) ==
  \/ \E u \in Users : MiningStatusGet(p, u)
  \/ MiningStatusSet(p)
  \/ \E u \in Users, a \in AmountsAroundBalance : WithdrawalGet(p, u, a)
  \/ WithdrawalSetRecord(p)
  \/ WithdrawalSetUser(p)

NextWithdraw == Tick \/ \E p \in Procs : WithdrawStep(p)

SpecWithdraw == InitWithdraw /\ [][NextWithdraw]_vars

InitAdmin == Serving([u \in Users |-> Served(u)])

\* Amounts sent to request-withdrawal: the minimum and the whole balance.
AdminAmounts == {MinimumWithdrawal, InitTime}

\* A withdrawal id no record is stored under.
MissingId == <<NoUser, 0>>

AdminStep(p) ==
  \/ \E u \in Users, a \in AdminAmounts : WithdrawalGet(p, u, a)
  \/ WithdrawalSetRecord(p)
  \/ WithdrawalSetUser(p)
  \/ \E u \in Users : AdminListGetUser(p, u)
  \/ AdminListGetByPrefix(p)
  \/ \E u \in Users, k \in DOMAIN kvWithdrawal \cup {MissingId} :
       AdminProcessGetUser(p, u, k)
  \/ AdminProcessGetWithdrawal(p)
  \/ AdminProcessSet(p)

NextAdmin == Tick \/ \E p \in Procs : AdminStep(p)

SpecAdmin == InitAdmin /\ [][NextAdmin]_vars

\* C26: a withdrawal record that an admin settle has answered for with
\* success is completed from then on: it is never pending again.
C26_SettleIsTerminal ==
  \A p \in Procs :
    (/\ req[p].op = "admin-process-withdrawal"
     /\ req[p].result = "ok") =>
      kvWithdrawal[req[p].withdrawalId].status = "completed"

\* The other parts of C26: the settle stores the record with status completed
\* and processedAt the server time, answers NotFound without a write for an
\* id that is not stored, and leaves every user record as it is.
C26_SettleEffect ==
  [][\A p \in Procs :
       /\ (req[p].pc = "ap_set" /\ req'[p].pc = "done") =>
            /\ kvWithdrawal'[req[p].withdrawalId].status = "completed"
            /\ kvWithdrawal'[req[p].withdrawalId].processedAt \in
                 req[p].now .. clock
            /\ kvUser' = kvUser
       /\ (req[p].pc = "ap_getWithdrawal" /\ req'[p].pc = "done") =>
            /\ req'[p].result = "NotFound"
            /\ req[p].withdrawalId \notin DOMAIN kvWithdrawal
            /\ UNCHANGED storeVars
       /\ (req[p].pc = "ap_getWithdrawal" /\ req'[p].pc = "ap_set") =>
            UNCHANGED storeVars]_vars


\* C27: once a withdrawal record is completed, a further admin settle of
\* the same id does not stamp it again: its processedAt stays that of the
\* first settle.
C27_ProcessedAtKept ==
  [][\A k \in DOMAIN kvWithdrawal :
       (/\ kvWithdrawal[k].status = "completed"
        /\ kvWithdrawal'[k].status = "completed") =>
         kvWithdrawal'[k].processedAt = kvWithdrawal[k].processedAt]_vars


AdminOps == {"admin-withdrawals", "admin-process-withdrawal"}

\* C28: every step of an admin operation whose caller's stored e-mail address
\* lacks "admin" is its answer Forbidden, carrying no withdrawal records and
\* leaving the store unchanged; and a withdrawal record goes from pending to
\* completed only in a step of a settle whose caller has an admin address.
C28_AdminOnly ==
  [][/\ \A p \in Procs :
          (/\ req'[p] # req[p]
           /\ req'[p].op \in AdminOps
           /\ kvUser[req'[p].user].email \notin AdminEmails) =>
            /\ req'[p].pc = "done"
            /\ req'[p].result = "Forbidden"
            /\ req'[p].allWithdrawals = << >>
            /\ UNCHANGED storeVars
     /\ \A k \in DOMAIN kvWithdrawal :
          (/\ kvWithdrawal[k].status = "pending"
           /\ kvWithdrawal'[k].status = "completed") =>
            \E p \in Procs :
              /\ req[p].op = "admin-process-withdrawal"
              /\ req[p].withdrawalId = k
              /\ req'[p] # req[p]
              /\ kvUser[req[p].user].email \in AdminEmails]_vars

\* A user without an admin address was refused the settle of a stored pending
\* withdrawal and the list of withdrawals.
C28_Witness ==
  \E p, q \in Procs :
    /\ req[p].op = "admin-process-withdrawal"
    /\ req[p].result = "Forbidden"
    /\ kvUser[req[p].user].email \notin AdminEmails
    /\ req[p].withdrawalId \in DOMAIN kvWithdrawal
    /\ kvWithdrawal[req[p].withdrawalId].status = "pending"
    /\ req[q].op = "admin-withdrawals"
    /\ req[q].result = "Forbidden"


\* ---------------------------------------------------------------- signup
\* The ids createUser can issue: those of Users, and for each of them one
\* more id with the same first eight characters.
Ids == Users \cup {u + 1 : u \in Users}

\* The first user has been mining since time 0 and has watched three ads;
\* nobody else has signed up yet.
InitSignup ==
  /\ clock = InitTime
  /\ ticks = 0
  /\ kvUser = [u \in Ids |-> IF u = FirstUser
                               THEN ServedWithAds(u, ReferralAdThreshold)
                               ELSE NoRecord]
  /\ kvReferral = (generateReferralCode(FirstUser) :> FirstUser)
  /\ kvWithdrawal = << >>
  /\ kvBonus = {}
  /\ req = [p \in Procs |-> IdleReq]
  /\ started = 0
  /\ bonusGranted = [u \in Ids |-> 0]
  /\ debited = {}
  /\ NoSettleRun

\* The inputs of the other handlers: a deposit of the minimum, the first
\* user's referral code, a withdrawal of the minimum.
SignupStep(p) ==
  \/ \E u \in Ids : SignupCreateUser(p, u)
  \/ SignupSetUser(p)
  \/ SignupSetReferral(p)
  \/ \E u \in Users : MiningStatusGet(p, u)
  \/ MiningStatusSet(p)
  \/ \E u \in Users : WatchAdGet(p, u)
  \/ WatchAdSet(p)
  \/ \E u \in Users : DepositBoostGet(p, u, MinimumDeposit)
  \/ DepositBoostSet(p)
  \/ \E u \in Users :
       ApplyReferralGetUser(p, u, generateReferralCode(FirstUser))
  \/ ApplyReferralGetCode(p)
  \/ ApplyReferralGetReferrer(p)
  \/ ApplyReferralSetReferrer(p)
  \/ ApplyReferralSetUser(p)
  \/ \E u \in Users : CheckBonusGetUser(p, u)
  \/ CheckBonusGetReferrer(p)
  \/ CheckBonusGetMarker(p)
  \/ CheckBonusSetReferrer(p)
  \/ CheckBonusSetMarker(p)
  \/ \E u \in Users : WithdrawalGet(p, u, MinimumWithdrawal)
  \/ WithdrawalSetRecord(p)
  \/ WithdrawalSetUser(p)

NextSignup == Tick \/ \E p \in Procs : SignupStep(p)

SpecSignup == InitSignup /\ [][NextSignup]_vars


\* C29: the record a signup stores at t0 has balance 0, totalMined 0,
\* currentMiningRate = baseMiningRate, no ads watched, a cap of 50 ads, no
\* referrer and withdrawEligibleAt = t0 + 7 days; and no step changes the
\* withdrawEligibleAt, baseMiningRate or referralCode of a stored record.
C29_SignupRecordAndFrame ==
  [][\A u \in Ids :
       /\ (kvUser[u] = NoRecord /\ kvUser'[u] # NoRecord) =>
            \E p \in Procs :
              /\ req[p].op = "signup" /\ req[p].user = u
              /\ kvUser'[u].createdAt = req[p].now
              /\ kvUser'[u].balance = 0
              /\ kvUser'[u].totalMined = 0
              /\ kvUser'[u].currentMiningRate = kvUser'[u].baseMiningRate
              /\ kvUser'[u].adsWatchedToday = 0
              /\ kvUser'[u].depositBoostCap = 50
              /\ kvUser'[u].referredBy = NoUser
              /\ kvUser'[u].withdrawEligibleAt = req[p].now + 7 * DAY
       /\ kvUser[u] # NoRecord =>
            /\ kvUser'[u] # NoRecord
            /\ kvUser'[u].withdrawEligibleAt = kvUser[u].withdrawEligibleAt
            /\ kvUser'[u].baseMiningRate = kvUser[u].baseMiningRate
            /\ kvUser'[u].referralCode = kvUser[u].referralCode]_vars

\* A user who signed up during the run has since mined, watched an ad and
\* been linked to a referrer.
C29_Witness ==
  \E u \in Ids :
    /\ kvUser[u] # NoRecord
    /\ kvUser[u].createdAt >= InitTime
    /\ kvUser[u].balance > 0
    /\ kvUser[u].adsWatchedToday > 0
    /\ kvUser[u].referredBy # NoUser

\* C30: the referral code of every user whose signup is complete resolves to
\* that user's own id in the referral index.
C30_CodeResolvesToOwner ==
  \A u \in Ids :
    (/\ kvUser[u] # NoRecord
     /\ \A p \in Procs : InFlight(p) => req[p].user # u) =>
      GetReferral(kvUser[u].referralCode) = u


\* C31: no step lowers a user's stored totalMined, and a step lowers a user's
\* stored balance only as the debit of a successful request-withdrawal, by
\* that request's amount.
C31_MinedAndBalanceMonotonic ==
  [][\A u \in Users :
       /\ kvUser'[u].totalMined >= kvUser[u].totalMined
       /\ kvUser'[u].balance < kvUser[u].balance =>
            \E p \in Procs :
              /\ req[p].op = "request-withdrawal"
              /\ req[p].user = u
              /\ req[p].pc = "wd_setUser" /\ req'[p].pc = "done"
              /\ kvUser'[u].balance = kvUser[u].balance - req[p].amount]_vars


\* C32: every record the settle of mining-status and watch-ad hands to the
\* store has balance >= 0, totalMined >= 0 and
\* currentMiningRate >= baseMiningRate > 0.
C32_CurrencyNonNegative ==
  \A i \in DOMAIN shist :
    /\ shist[i].balance >= 0
    /\ shist[i].totalMined >= 0
    /\ shist[i].currentMiningRate >= shist[i].baseMiningRate
    /\ shist[i].baseMiningRate > 0


\* ---------------------------------------------------------- error paths
\* The first user has mined since time 0 and has used up the daily ads; the
\* other users signed up at InitTime; the remaining ids have no record.
ErrorsRecord(u) ==
  IF u = FirstUser THEN ServedWithAds(u, DefaultBoostCap)
  ELSE IF u \in Users THEN NewUser(u, InitTime)
  ELSE NoRecord

InitErrors == Serving([u \in Ids |-> ErrorsRecord(u)])

\* Amounts sent to request-withdrawal: none, below the minimum, the minimum,
\* more than the balance.
ErrorAmounts == {0, MinimumWithdrawal - 1, MinimumWithdrawal, InitTime + 1}

\* Amounts sent to deposit-boost: below the minimum, and the minimum.
ErrorDeposits == {MinimumDeposit - 1, MinimumDeposit}

ErrorsStep(p) ==
  \/ \E u \in Ids : MiningStatusGet(p, u)
  \/ MiningStatusSet(p)
  \/ \E u \in Ids : WatchAdGet(p, u)
  \/ WatchAdSet(p)
  \/ \E u \in Ids, a \in ErrorDeposits : DepositBoostGet(p, u, a)
  \/ DepositBoostSet(p)
  \/ \E u \in Ids, c \in Codes : ApplyReferralGetUser(p, u, c)
  \/ ApplyReferralGetCode(p)
  \/ ApplyReferralGetReferrer(p)
  \/ ApplyReferralSetReferrer(p)
  \/ ApplyReferralSetUser(p)
  \/ \E u \in Ids : CheckBonusGetUser(p, u)
  \/ CheckBonusGetReferrer(p)
  \/ CheckBonusGetMarker(p)
  \/ CheckBonusSetReferrer(p)
  \/ CheckBonusSetMarker(p)
  \/ \E u \in Ids, a \in ErrorAmounts : WithdrawalGet(p, u, a)
  \/ WithdrawalSetRecord(p)
  \/ WithdrawalSetUser(p)
  \/ \E u \in Ids : AdminListGetUser(p, u)
  \/ AdminListGetByPrefix(p)
  \/ \E u \in Ids, k \in DOMAIN kvWithdrawal \cup {MissingId} :
       AdminProcessGetUser(p, u, k)
  \/ AdminProcessGetWithdrawal(p)
  \/ AdminProcessSet(p)

NextErrors == Tick \/ ErrorsStep(OneTask)

SpecErrors == InitErrors /\ [][NextErrors]_vars

\* The error results of the handlers.
ErrorResults ==
  {"NotFound", "Validation", "DailyLimitReached", "InvalidCode",
   "ReferrerNotFound", "SelfReferral", "AlreadyReferred", "BelowMinimum",
   "NotYetEligible", "InsufficientBalance", "Forbidden"}

\* The positions of the handlers at one of their kv.set calls.
AtWrite ==
  {"ms_set", "wa_set", "db_set", "ar_setReferrer", "ar_setUser",
   "cb_setReferrer", "cb_setMarker", "wd_setRecord", "wd_setUser", "ap_set",
   "su_setUser", "su_setReferral"}

\* C33: the step in which a request is answered with an error result leaves
\* the whole store as it is, and is taken before the request has reached any
\* of its kv.set calls.
C33_ErrorsWriteNothing ==
  [][\A p \in Procs :
       (req'[p] # req[p] /\ req'[p].result \in ErrorResults) =>
         /\ UNCHANGED storeVars
         /\ req[p].pc \notin AtWrite]_vars

\* A watch-ad at the daily limit was refused after it had settled the record
\* in memory: the record it holds differs from the stored one.
C33_Witness ==
  \E p \in Procs :
    /\ req[p].op = "watch-ad"
    /\ req[p].result = "DailyLimitReached"
    /\ req[p].userData.balance > kvUser[req[p].user].balance


\* C34: the kv.set that stores the record of a successful request-withdrawal
\* adds a record of its own: it raises the number of the user's stored
\* withdrawal records by one and leaves the records already stored alone.
C34_OwnRecordPerWithdrawal ==
  [][\A p \in Procs :
       (req[p].pc = "wd_setRecord" /\ req'[p].pc = "wd_setUser") =>
         /\ Cardinality({k \in DOMAIN kvWithdrawal' : k[1] = req[p].user})
              = Cardinality({k \in DOMAIN kvWithdrawal : k[1] = req[p].user}) + 1
         /\ \A k \in DOMAIN kvWithdrawal : kvWithdrawal'[k] = kvWithdrawal[k]
    ]_vars


\* C35: the stored balance of every referrer holds the 0.05 $ credit of each
\* pair whose marker is stored.  No withdrawal runs here, so balance less
\* totalMined is the sum of the credits the stored balance holds.
C35_GrantedBonusKept ==
  \A r \in Users :
    kvUser[r].balance - kvUser[r].totalMined
      >= ReferralBonus * Cardinality({m \in kvBonus : m[1] = r})


AdminKeys ==
  DOMAIN kvWithdrawal \cup {MissingId}
    \cup {UserKey(u) : u \in Users}
    \cup {ReferralKey(c) : c \in Codes}
    \cup {BonusKey(r, e) : r, e \in Users}

AdminKeysStep(p) ==
  \/ \E u \in Users : WithdrawalGet(p, u, MinimumWithdrawal)
  \/ WithdrawalSetRecord(p)
  \/ WithdrawalSetUser(p)
  \/ \E u \in Users, c \in Codes : ApplyReferralGetUser(p, u, c)
  \/ ApplyReferralGetCode(p)
  \/ ApplyReferralGetReferrer(p)
  \/ ApplyReferralSetReferrer(p)
  \/ ApplyReferralSetUser(p)
  \/ \E u \in Users : CheckBonusGetUser(p, u)
  \/ CheckBonusGetReferrer(p)
  \/ CheckBonusGetMarker(p)
  \/ CheckBonusSetReferrer(p)
  \/ CheckBonusSetMarker(p)
  \/ \E u \in Users, k \in AdminKeys : AdminProcessGetUser(p, u, k)
  \/ AdminProcessGetWithdrawal(p)
  \/ AdminProcessSet(p)

NextAdminKeys == Tick \/ AdminKeysStep(OneTask)

SpecAdminKeys == InitBonus /\ [][NextAdminKeys]_vars

\* C37: a step of admin/process-withdrawal changes no user record, no
\* referral index entry and no bonus marker, whatever withdrawalId names.
C37_SettleTouchesWithdrawalsOnly ==
  [][\A p \in Procs :
       (req[p].op = "admin-process-withdrawal" /\ req'[p] # req[p]) =>
         UNCHANGED <<kvUser, kvReferral, kvBonus>>]_vars

=============================================================================
